---- MODULE Spec2Model ----
(***************************************************************************)
(* Model of the threaded video loop of video_stream_abc.py: a grab thread  *)
(* that reads frames from a stream into the shared slot self.frame, a proc *)
(* thread that polls the grab thread's frame counter, reads the slot,      *)
(* transforms and shows the frame, and stop(), which reports statistics,   *)
(* sets both stop events and exits its caller.                             *)
(*                                                                         *)
(* Every labelled statement of the two loops and of stop() is one action;  *)
(* pc[t] is the statement thread t executes next.  A frame is identified   *)
(* by the number of the stream.read() call that returned it.               *)
(***************************************************************************)
EXTENDS Integers, Sequences, FiniteSets, TLC

\* Number of stream.read() calls after which the grab loop starts no new
\* iteration (the model's only bound).
MaxReads == 2

\* video_stream_abc.py:15
MAX_SUCCESSIVE_DROPPED_FRAMES == 100

\* The value of self.frame after construction, and of a failed read's frame.
None == 0

\* The image cv2.accumulateWeighted returns in AvgFrames.process_frame (the
\* running average, not a frame of the stream).
AvgImage == -1

\* cv2.waitKey(1) == 27
ESC == 27

\* cv2.waitKey's result when no key is pending.
NoKey == -1

Workers == {"grab", "proc"}

\* The control thread is the one that constructed the pipeline and called start().
Threads == {"grab", "proc", "ctl"}

\* The concrete pipelines: VisualizeOnly (and AvgNFrames) return an image and
\* leave the pipeline's frame slot alone, AvgFrames assigns self.frame, and
\* VideoStreamABC itself has no process_frame but the raising one.
Kinds == {"VisualizeOnly", "AvgFrames", "VideoStreamABC"}

VARIABLES
    kind,          \* the class of the pipeline object
    pc,            \* pc[t]: the statement thread t executes next
    n_reads,       \* stream: number of read() calls made
    stream_fails,  \* stream: number of consecutive failed reads, up to now
    frame,         \* self.frame, the shared slot
    frame_lock,    \* self.frame_lock: "free" or the thread holding it
    stop_event,    \* stop_event[w]: StoppableThread._stop_event of worker w
    fps,           \* fps[w]: the FPS counter of worker w
    g_frame,       \* grab_thread_loop: local frame
    n_dropped_frames, \* grab_thread_loop: local n_dropped_frames
    count,         \* proc_thread_loop: local count
    prev_count,    \* proc_thread_loop: local prev_count
    p_frame,       \* proc_thread_loop: local frame
    avg_frame,     \* AvgFrames.avg_frame
    processed,     \* the frames process_frame was called with, in order
    saw_new,       \* whether the current proc iteration found count > prev_count
    polls,         \* cv2.waitKey calls made in the current proc iteration
    p_key,         \* the result of the cv2.waitKey call of line 134
    stdout,        \* the n_frames lines stop() printed, in order
    n_destroy,     \* number of cv2.destroyAllWindows() calls made
    g_steps,       \* what the grab loop did in its current iteration, in order
    p_steps,       \* what the proc loop did in its current iteration, in order
    n_writes,      \* number of assignments of self.frame by the grab loop
    late           \* what each worker did while its stop event was set

vars == <<kind, pc, n_reads, stream_fails, frame, frame_lock, stop_event, fps,
          g_frame, n_dropped_frames, count, prev_count, p_frame, avg_frame,
          processed, saw_new, polls, p_key, stdout, n_destroy, g_steps,
          p_steps, n_writes, late>>

grabVars == <<g_frame, n_dropped_frames>>
procVars == <<count, prev_count, p_frame, avg_frame, processed, saw_new,
              polls, p_key>>
streamVars == <<n_reads, stream_fails>>
outVars == <<stdout, n_destroy>>
histVars == <<g_steps, p_steps, n_writes, late>>

----------------------------------------------------------------------------
\* fps.FPS and pacer.Pacer (imported by video_stream_abc.py)

FPS == [n_frames |-> 0, started |-> FALSE, stopped |-> FALSE]

FpsStart(f) == [f EXCEPT !.n_frames = 0, !.started = TRUE]

FpsUpdate(f) == [f EXCEPT !.n_frames = @ + 1]

FpsStop(f) == [f EXCEPT !.stopped = TRUE]

----------------------------------------------------------------------------
\* StoppableThread

is_stopped(w) == stop_event[w]

ThreadStop(w) == [stop_event EXCEPT ![w] = TRUE]

----------------------------------------------------------------------------
\* VideoStreamABC.__init__ and start()

Init ==
    /\ kind \in Kinds
    /\ pc = [t \in Threads |-> "init"]
    /\ n_reads = 0
    /\ stream_fails = 0
    /\ frame = None
    /\ frame_lock = "free"
    /\ stop_event = [w \in Workers |-> FALSE]
    /\ fps = [w \in Workers |-> FPS]
    /\ g_frame = None
    /\ n_dropped_frames = 0
    /\ count = 0
    /\ prev_count = 0
    /\ p_frame = None
    /\ avg_frame = None
    /\ processed = <<>>
    /\ saw_new = FALSE
    /\ polls = 0
    /\ p_key = NoKey
    /\ stdout = <<>>
    /\ n_destroy = 0
    /\ g_steps = <<>>
    /\ p_steps = <<>>
    /\ n_writes = 0
    /\ late = [writes |-> 0, counts |-> 0, transforms |-> 0]

Start ==
    /\ pc["ctl"] = "init"
    /\ pc' = [t \in Threads |-> IF t = "ctl" THEN "started" ELSE "start"]
    /\ UNCHANGED <<kind, streamVars, frame, frame_lock, stop_event, fps,
                   grabVars, procVars, outVars, histVars>>

----------------------------------------------------------------------------
\* stream.read(): a successful read returns the next frame of the stream, a
\* failed one returns no frame.

ReadResults == {TRUE, FALSE}

ReadFrame(got_one) == IF got_one THEN n_reads + 1 ELSE None

----------------------------------------------------------------------------
\* The record of what worker w does while its stop event is set: one more
\* of `what` when the event is set, nothing otherwise.

Late(w, what) ==
    IF is_stopped(w) THEN [late EXCEPT ![what] = @ + 1] ELSE late

----------------------------------------------------------------------------
\* VideoStreamABC.grab_thread_loop

\* lines 89-92
GrabStart ==
    /\ pc["grab"] = "start"
    /\ fps' = [fps EXCEPT !["grab"] = FpsStart(@)]
    /\ n_dropped_frames' = 0
    /\ pc' = [pc EXCEPT !["grab"] = "g93"]
    /\ UNCHANGED <<kind, streamVars, frame, frame_lock, stop_event, g_frame,
                   procVars, outVars, histVars>>

\* line 93: while not self.grab_thread.is_stopped()
GrabLoopNoCheck == TRUE

GrabLoopCond == ~is_stopped("grab")

GrabCheck ==
    /\ pc["grab"] = "g93"
    /\ IF GrabLoopCond
         THEN /\ n_reads < MaxReads
              /\ pc' = [pc EXCEPT !["grab"] = "g95"]
         ELSE pc' = [pc EXCEPT !["grab"] = "done"]
    /\ g_steps' = <<>>
    /\ UNCHANGED <<kind, streamVars, frame, frame_lock, stop_event, fps,
                   grabVars, procVars, outVars,
                   p_steps, n_writes, late>>

\* line 95: (got_one, frame) = self.stream.read(); got_one is not used
\* (lines 97-111 are commented out)
GrabRead ==
    /\ pc["grab"] = "g95"
    /\ \E got_one \in ReadResults :
          /\ g_frame' = ReadFrame(got_one)
          /\ stream_fails' = IF got_one THEN 0 ELSE stream_fails + 1
    /\ n_reads' = n_reads + 1
    /\ pc' = [pc EXCEPT !["grab"] = "g113"]
    /\ g_steps' = Append(g_steps, "read")
    /\ UNCHANGED <<kind, frame, frame_lock, stop_event, fps, n_dropped_frames,
                   procVars, outVars,
                   p_steps, n_writes, late>>

\* line 113: self.frame_lock.acquire()
GrabAcquire ==
    /\ pc["grab"] = "g113"
    /\ frame_lock = "free"
    /\ frame_lock' = "grab"
    /\ pc' = [pc EXCEPT !["grab"] = "g114"]
    /\ UNCHANGED <<kind, streamVars, frame, stop_event, fps, grabVars,
                   procVars, outVars, histVars>>

\* line 114: self.frame = frame
GrabWrite ==
    /\ pc["grab"] = "g114"
    /\ frame' = g_frame
    /\ pc' = [pc EXCEPT !["grab"] = "g115"]
    /\ g_steps' = Append(g_steps, "write")
    /\ n_writes' = n_writes + 1
    /\ late' = Late("grab", "writes")
    /\ UNCHANGED <<kind, streamVars, frame_lock, stop_event, fps, grabVars,
                   procVars, outVars,
                   p_steps>>

\* line 115: self.frame_lock.release()
GrabRelease ==
    /\ pc["grab"] = "g115"
    /\ frame_lock' = "free"
    /\ pc' = [pc EXCEPT !["grab"] = "g116"]
    /\ UNCHANGED <<kind, streamVars, frame, stop_event, fps, grabVars,
                   procVars, outVars, histVars>>

\* lines 116-117 with no pacer (self.grab_thread.pacer is None)
GrabPaceSkipped ==
    /\ pc["grab"] = "g116"
    /\ pc' = [pc EXCEPT !["grab"] = "g118"]
    /\ g_steps' = g_steps
    /\ UNCHANGED <<kind, streamVars, frame, frame_lock, stop_event, fps,
                   grabVars, procVars, outVars,
                   p_steps, n_writes, late>>

\* lines 116-117: self.grab_thread.pacer.update() (a sleep)
GrabPace ==
    /\ pc["grab"] = "g116"
    /\ pc' = [pc EXCEPT !["grab"] = "g118"]
    /\ g_steps' = Append(g_steps, "pace")
    /\ UNCHANGED <<kind, streamVars, frame, frame_lock, stop_event, fps,
                   grabVars, procVars, outVars,
                   p_steps, n_writes, late>>

\* line 118: self.grab_thread.fps.update()
GrabUpdate ==
    /\ pc["grab"] = "g118"
    /\ fps' = [fps EXCEPT !["grab"] = FpsUpdate(@)]
    /\ pc' = [pc EXCEPT !["grab"] = "g93"]
    /\ g_steps' = Append(g_steps, "count")
    /\ late' = Late("grab", "counts")
    /\ UNCHANGED <<kind, streamVars, frame, frame_lock, stop_event, grabVars,
                   procVars, outVars,
                   p_steps, n_writes>>

Grab ==
    \/ GrabStart
    \/ GrabCheck
    \/ GrabRead
    \/ GrabAcquire
    \/ GrabWrite
    \/ GrabRelease
    \/ GrabPace
    \/ GrabUpdate

----------------------------------------------------------------------------
\* VideoStreamABC.stop, run by thread t (the proc loop at line 135, or the
\* control thread calling the public method)

StopPcs == {"s70", "s72", "s77", "s82", "s83", "s84", "s85"}

\* lines 70-71: self.grab_thread.fps.stop(); self.proc_thread.fps.stop()
StopFps(t) ==
    /\ pc[t] = "s70"
    /\ fps' = [w \in Workers |-> FpsStop(fps[w])]
    /\ pc' = [pc EXCEPT ![t] = "s72"]
    /\ UNCHANGED <<kind, streamVars, frame, frame_lock, stop_event, grabVars,
                   procVars, outVars, histVars>>

\* lines 72-76: the three [GRAB] lines; the last prints n_frames
StopPrintGrab(t) ==
    /\ pc[t] = "s72"
    /\ stdout' = Append(stdout, <<"GRAB", fps["grab"].n_frames>>)
    /\ pc' = [pc EXCEPT ![t] = "s77"]
    /\ UNCHANGED <<kind, streamVars, frame, frame_lock, stop_event, fps,
                   grabVars, procVars, n_destroy, histVars>>

\* lines 77-81: the three [PROC] lines
StopPrintProc(t) ==
    /\ pc[t] = "s77"
    /\ stdout' = Append(stdout, <<"PROC", fps["proc"].n_frames>>)
    /\ pc' = [pc EXCEPT ![t] = "s82"]
    /\ UNCHANGED <<kind, streamVars, frame, frame_lock, stop_event, fps,
                   grabVars, procVars, n_destroy, histVars>>

\* line 82: self.grab_thread.stop()
StopGrabThread(t) ==
    /\ pc[t] = "s82"
    /\ stop_event' = ThreadStop("grab")
    /\ pc' = [pc EXCEPT ![t] = "s83"]
    /\ UNCHANGED <<kind, streamVars, frame, frame_lock, fps, grabVars,
                   procVars, outVars, histVars>>

\* line 83: self.proc_thread.stop()
StopProcThread(t) ==
    /\ pc[t] = "s83"
    /\ stop_event' = ThreadStop("proc")
    /\ pc' = [pc EXCEPT ![t] = "s84"]
    /\ UNCHANGED <<kind, streamVars, frame, frame_lock, fps, grabVars,
                   procVars, outVars, histVars>>

\* line 84: cv2.destroyAllWindows()
StopDestroy(t) ==
    /\ pc[t] = "s84"
    /\ n_destroy' = n_destroy + 1
    /\ pc' = [pc EXCEPT ![t] = "s85"]
    /\ UNCHANGED <<kind, streamVars, frame, frame_lock, stop_event, fps,
                   grabVars, procVars, stdout, histVars>>

\* line 85 as a call that returns: the proc loop goes on to line 137
StopExitReturns(t) ==
    /\ pc[t] = "s85"
    /\ pc' = [pc EXCEPT ![t] = IF t = "proc" THEN "p137" ELSE "exited"]
    /\ UNCHANGED <<kind, streamVars, frame, frame_lock, stop_event, fps,
                   grabVars, procVars, outVars, histVars>>

\* line 85: sys.exit(0) raises SystemExit in the calling thread, which ends
\* that thread only
StopExit(t) ==
    /\ pc[t] = "s85"
    /\ pc' = [pc EXCEPT ![t] = "exited"]
    /\ UNCHANGED <<kind, streamVars, frame, frame_lock, stop_event, fps,
                   grabVars, procVars, outVars, histVars>>

Stop(t) ==
    \/ StopFps(t)
    \/ StopPrintGrab(t)
    \/ StopPrintProc(t)
    \/ StopGrabThread(t)
    \/ StopProcThread(t)
    \/ StopDestroy(t)
    \/ StopExit(t)

\* the control thread calls the public stop() of the running pipeline
ExternalStop ==
    /\ pc["ctl"] = "started"
    /\ pc' = [pc EXCEPT !["ctl"] = "s70"]
    /\ UNCHANGED <<kind, streamVars, frame, frame_lock, stop_event, fps,
                   grabVars, procVars, outVars, histVars>>

----------------------------------------------------------------------------
\* process_frame of the concrete pipelines

\* VideoStreamABC.process_frame (line 146) raises; the others return an image
Implemented(k) == k # "VideoStreamABC"

\* AvgFrames.process_frame reaches its line 31, self.frame = ..., from the
\* second call on (avg_frame is None only in the first)
AssignsSlot(k) == k = "AvgFrames" /\ avg_frame # None

----------------------------------------------------------------------------
\* VideoStreamABC.proc_thread_loop

\* lines 123-126
ProcStart ==
    /\ pc["proc"] = "start"
    /\ fps' = [fps EXCEPT !["proc"] = FpsStart(@)]
    /\ prev_count' = 0
    /\ pc' = [pc EXCEPT !["proc"] = "p127"]
    /\ UNCHANGED <<kind, streamVars, frame, frame_lock, stop_event, grabVars,
                   count, p_frame, avg_frame, processed, saw_new, polls,
                   p_key, outVars, histVars>>

\* line 127: while not self.proc_thread.is_stopped()
ProcLoopNoCheck == TRUE

ProcLoopCond == ~is_stopped("proc")

ProcCheck ==
    /\ pc["proc"] = "p127"
    /\ pc' = [pc EXCEPT !["proc"] = IF ProcLoopCond THEN "p128" ELSE "done"]
    /\ saw_new' = FALSE
    /\ polls' = 0
    /\ p_key' = NoKey
    /\ UNCHANGED <<kind, streamVars, frame, frame_lock, stop_event, fps,
                   grabVars, count, prev_count, p_frame, avg_frame, processed,
                   outVars,
                   histVars>>

\* line 129 with >= for >: an unchanged counter passes too
AdvancedOrEqual(c, prev) == c >= prev

\* line 129: if count > prev_count
Advanced(c, prev) == c > prev

\* line 128 reading the number of slot writes instead of the counter
ObservedSlotWrites == n_writes

\* line 128: self.grab_thread.fps.n_frames, read without the lock
ObservedCount == fps["grab"].n_frames

\* lines 128-129: count = self.grab_thread.fps.n_frames
ProcObserve ==
    /\ pc["proc"] = "p128"
    /\ count' = ObservedCount
    /\ pc' = [pc EXCEPT !["proc"] =
                 IF Advanced(count', prev_count) THEN "p131" ELSE "p140"]
    /\ saw_new' = Advanced(count', prev_count)
    /\ p_steps' = <<"observe">>
    /\ UNCHANGED <<kind, streamVars, frame, frame_lock, stop_event, fps,
                   grabVars, prev_count, p_frame, avg_frame, processed, polls,
                   p_key, outVars,
                   g_steps, n_writes, late>>

\* line 131: self.frame_lock.acquire()
ProcAcquire ==
    /\ pc["proc"] = "p131"
    /\ frame_lock = "free"
    /\ frame_lock' = "proc"
    /\ pc' = [pc EXCEPT !["proc"] = "p132"]
    /\ UNCHANGED <<kind, streamVars, frame, stop_event, fps, grabVars,
                   procVars, outVars, histVars>>

\* line 132: frame = self.frame
ProcRead ==
    /\ pc["proc"] = "p132"
    /\ p_frame' = frame
    /\ pc' = [pc EXCEPT !["proc"] = "p133"]
    /\ p_steps' = Append(p_steps, "read")
    /\ UNCHANGED <<kind, streamVars, frame, frame_lock, stop_event, fps,
                   grabVars, count, prev_count, avg_frame, processed, saw_new,
                   polls, p_key, outVars,
                   g_steps, n_writes, late>>

\* line 133 without the release
ProcReleaseForgotten ==
    /\ pc["proc"] = "p133"
    /\ pc' = [pc EXCEPT !["proc"] = "p134"]
    /\ UNCHANGED <<kind, streamVars, frame, frame_lock, stop_event, fps, grabVars,
                   procVars, outVars, histVars>>

\* line 133: self.frame_lock.release()
ProcRelease ==
    /\ pc["proc"] = "p133"
    /\ frame_lock' = "free"
    /\ pc' = [pc EXCEPT !["proc"] = "p134"]
    /\ UNCHANGED <<kind, streamVars, frame, stop_event, fps, grabVars,
                   procVars, outVars, histVars>>

\* line 134: `frame is None or cv2.waitKey(1) == 27`: the or evaluates
\* cv2.waitKey only when the frame is not None
PollsKeyAlways(f) == TRUE

PollsKey(f) == f # None

Keys == {ESC, NoKey}

StopOnKeyOnly(f, key) == key = ESC

StopRequested(f, key) == f = None \/ key = ESC

\* lines 134-135: on a true condition the thread enters self.stop(), which
\* does not return (line 85)
ProcTest ==
    /\ pc["proc"] = "p134"
    /\ \E key \in (IF PollsKey(p_frame) THEN Keys ELSE {NoKey}) :
          /\ p_key' = key
          /\ pc' = [pc EXCEPT !["proc"] =
                       IF StopRequested(p_frame, key) THEN "s70" ELSE "p137"]
    /\ polls' = IF PollsKey(p_frame) THEN polls + 1 ELSE polls
    /\ p_steps' = IF PollsKey(p_frame) THEN Append(p_steps, "poll")
                            ELSE p_steps
    /\ UNCHANGED <<kind, streamVars, frame, frame_lock, stop_event, fps,
                   grabVars, count, prev_count, p_frame, avg_frame, processed,
                   saw_new, outVars,
                   g_steps, n_writes, late>>

\* line 137: cv2.imshow(WINDOW_NAME, self.process_frame(frame)).  An
\* exception of process_frame ends the thread (nothing catches it); in
\* AvgFrames the call goes on to avg_frames.py line 31
ProcTransform ==
    /\ pc["proc"] = "p137"
    /\ processed' = Append(processed, p_frame)
    /\ IF ~Implemented(kind)
         THEN /\ pc' = [pc EXCEPT !["proc"] = "crashed"]
              /\ UNCHANGED avg_frame
         ELSE IF AssignsSlot(kind)
           THEN /\ pc' = [pc EXCEPT !["proc"] = "a31"]
                /\ UNCHANGED avg_frame
           ELSE /\ pc' = [pc EXCEPT !["proc"] = "p138"]
                /\ avg_frame' = IF kind = "AvgFrames" THEN AvgImage
                                ELSE avg_frame
    /\ p_steps' = p_steps \o (IF Implemented(kind) /\ ~AssignsSlot(kind)
                               THEN <<"transform", "show">>
                               ELSE <<"transform">>)
    /\ late' = Late("proc", "transforms")
    /\ UNCHANGED <<kind, streamVars, frame, frame_lock, stop_event, fps,
                   grabVars, count, prev_count, p_frame, saw_new, polls,
                   p_key, outVars,
                   g_steps, n_writes>>

\* avg_frames.py line 31: self.frame = cv2.accumulateWeighted(frame,
\* self.avg_frame, ALPHA), then the return and the imshow of line 137
AvgAssign ==
    /\ pc["proc"] = "a31"
    /\ frame' = AvgImage
    /\ pc' = [pc EXCEPT !["proc"] = "p138"]
    /\ p_steps' = Append(p_steps, "show")
    /\ UNCHANGED <<kind, streamVars, frame_lock, stop_event, fps, grabVars,
                   procVars, outVars,
                   g_steps, n_writes, late>>

\* line 139: the counter updated is self.proc_thread.fps
CountedByGrabThread == "grab"

CountedByProcLoop == "proc"

\* lines 138-139: prev_count = count; self.proc_thread.fps.update()
ProcUpdate ==
    /\ pc["proc"] = "p138"
    /\ prev_count' = count
    /\ fps' = [fps EXCEPT ![CountedByProcLoop] = FpsUpdate(@)]
    /\ pc' = [pc EXCEPT !["proc"] = "p140"]
    /\ p_steps' = Append(p_steps, "count")
    /\ UNCHANGED <<kind, streamVars, frame, frame_lock, stop_event, grabVars,
                   count, p_frame, avg_frame, processed, saw_new, polls,
                   p_key, outVars,
                   g_steps, n_writes, late>>

\* lines 140-141 with no pacer (self.proc_thread.pacer is None)
ProcPaceSkipped ==
    /\ pc["proc"] = "p140"
    /\ pc' = [pc EXCEPT !["proc"] = "p127"]
    /\ p_steps' = p_steps
    /\ UNCHANGED <<kind, streamVars, frame, frame_lock, stop_event, fps,
                   grabVars, procVars, outVars,
                   g_steps, n_writes, late>>

\* lines 140-141: self.proc_thread.pacer.update() (a sleep)
ProcPace ==
    /\ pc["proc"] = "p140"
    /\ pc' = [pc EXCEPT !["proc"] = "p127"]
    /\ p_steps' = Append(p_steps, "pace")
    /\ UNCHANGED <<kind, streamVars, frame, frame_lock, stop_event, fps,
                   grabVars, procVars, outVars,
                   g_steps, n_writes, late>>

Proc ==
    \/ ProcStart
    \/ ProcCheck
    \/ ProcObserve
    \/ ProcAcquire
    \/ ProcRead
    \/ ProcRelease
    \/ ProcTest
    \/ ProcTransform
    \/ AvgAssign
    \/ ProcUpdate
    \/ ProcPace
    \/ Stop("proc")

Ctl ==
    \/ Start
    \/ ExternalStop
    \/ Stop("ctl")

Next == Grab \/ Proc \/ Ctl

Spec == Init /\ [][Next]_vars

\* The scheduler runs every thread that can take a step; a thread waiting
\* for frame_lock gets it once the other thread has released it for good.
LiveSpec ==
    /\ Spec
    /\ WF_vars(Grab)
    /\ WF_vars(Proc)
    /\ WF_vars(Stop("ctl"))

----------------------------------------------------------------------------
\* Properties

Terminal == {"done", "exited", "crashed"}

\* thread t has called stop()
InStop(t) == pc[t] \in StopPcs \cup {"exited"}

\* the statements of a worker's loop body (the loop test excluded)
GrabBody == {"g95", "g113", "g114", "g115", "g116", "g118"}
ProcBody == {"p128", "p131", "p132", "p133", "p134", "p137", "a31", "p138",
             "p140"}

Lines(tag) == {i \in DOMAIN stdout : stdout[i][1] = tag}

\* C1: the proc loop never passes the same grabbed frame to process_frame
\* twice: the frames of the stream among the transform's inputs are pairwise
\* different.
C1_NoFrameProcessedTwice ==
    \A i, j \in DOMAIN processed :
        (i < j /\ processed[i] > None) => processed[i] # processed[j]

\* C2: when the proc loop, whose previous observation of the grab counter
\* was N (prev_count, 0 before the first frame), observes N+1, the frame it
\* has passed to the transform is the (N+1)-th frame the grab loop wrote,
\* the frame of read N+1.
C2_AdvanceByOneProcessesThatFrame ==
    (pc["proc"] = "p138" /\ count = prev_count + 1)
        => processed[Len(processed)] = count

\* C3: with a stream whose every read failed, a worker has invoked stop()
\* only after MAX_SUCCESSIVE_DROPPED_FRAMES consecutive failed reads, it is
\* the grab loop that invokes it, and there is no further read.
C3_ShutdownAtHundredthFailure ==
    (n_reads >= 1 /\ stream_fails = n_reads) =>
        /\ (\E w \in Workers : InStop(w)) =>
               /\ stream_fails >= MAX_SUCCESSIVE_DROPPED_FRAMES
               /\ InStop("grab")
        /\ n_reads <= MAX_SUCCESSIVE_DROPPED_FRAMES

\* C4: stop() is idempotent: once the proc loop and the control thread
\* have both run stop() to its end, one set of statistics was printed and
\* the windows were destroyed once.
C4_StopIdempotent ==
    (pc["proc"] = "exited" /\ pc["ctl"] = "exited") =>
        /\ Cardinality(Lines("GRAB")) = 1
        /\ Cardinality(Lines("PROC")) = 1
        /\ n_destroy = 1

\* the statement thread t executes next reads or assigns self.frame
AccessesSlot(t) ==
    \/ t = "grab" /\ pc[t] = "g114"
    \/ t = "proc" /\ pc[t] \in {"p132", "a31"}

\* C5: a thread that reads or assigns self.frame holds frame_lock.
C5_SlotAccessUnderLock ==
    \A t \in Workers : AccessesSlot(t) => frame_lock = t

\* C6: when process_frame has raised in the proc loop, stop() has run: the
\* statistics are printed and both stop events are set.
C6_RaiseEscalatesToStop ==
    pc["proc"] = "crashed" =>
        /\ stop_event["grab"]
        /\ stop_event["proc"]
        /\ Lines("GRAB") # {}

\* C7: once a worker's call of stop() is complete (both events set, windows
\* destroyed, caller ended), no worker is inside its loop body.
C7_NoWorkerRunsAfterShutdown ==
    (\E w \in Workers : pc[w] = "exited") =>
        /\ pc["grab"] \notin GrabBody
        /\ pc["proc"] \notin ProcBody

StopInvoked == \E t \in Threads : pc[t] \in StopPcs

WorkersTerminated == \A w \in Workers : pc[w] \in Terminal

\* C8: a worker whose stop event is set leaves its loop at its next loop
\* test, and (every thread that can run being scheduled) once stop() is
\* invoked both workers eventually terminate.
C8_StopTerminatesWorkers ==
    /\ [][/\ (pc["grab"] = "g93" /\ stop_event["grab"]
                 /\ pc'["grab"] # "g93") => pc'["grab"] = "done"
          /\ (pc["proc"] = "p127" /\ stop_event["proc"]
                 /\ pc'["proc"] # "p127") => pc'["proc"] = "done"]_vars
    /\ StopInvoked ~> WorkersTerminated

\* stop() has run to its end and the grab loop, having written frames, has
\* left through its loop test
C8_Witness ==
    /\ pc["proc"] = "exited"
    /\ pc["grab"] = "done"
    /\ stop_event["grab"]
    /\ fps["grab"].n_frames >= 2

\* C9 as stated: at the end of every proc iteration (at the pacer) the
\* cancel key was polled exactly once in that iteration.
C9_PollsOncePerIteration ==
    pc["proc"] = "p140" => polls = 1

\* C9 as amended: the cancel key is polled at most once per proc iteration,
\* and exactly in the iterations in which the counter had advanced and the
\* frame read was not None; an iteration without a new count polls nothing.
C9_PollsOnlyOnNewFrame ==
    /\ polls \in {0, 1}
    /\ pc["proc"] = "p140" => polls = (IF saw_new THEN 1 ELSE 0)
    /\ pc["proc"] \in {"p137", "a31", "p138"} => polls = 1
    /\ pc["proc"] \in StopPcs =>
           polls = (IF p_frame = None THEN 0 ELSE 1)

\* an iteration that came after processed frames, found no new count and
\* ends without a poll
C9_Witness ==
    /\ pc["proc"] = "p140"
    /\ ~saw_new
    /\ prev_count >= 1
    /\ polls = 0

\* C10: the proc loop goes on to the transform only with a frame that is
\* not None and without the cancel key; otherwise it is in stop() in that
\* iteration, and when that stop() has ended the statistics are printed and
\* both stop events are set.
C10_AbsentOrCancelStops ==
    /\ pc["proc"] \in {"p137", "a31", "p138"} =>
           (p_frame # None /\ p_key # ESC)
    /\ (saw_new /\ pc["proc"] \in StopPcs) =>
           (p_frame = None \/ p_key = ESC)
    /\ pc["proc"] = "exited" =>
           /\ Lines("GRAB") # {} /\ Lines("PROC") # {}
           /\ stop_event["grab"] /\ stop_event["proc"]

\* the slot held None in an iteration after a processed frame, and the
\* stop() it led to has ended
C10_Witness ==
    /\ pc["proc"] = "exited"
    /\ p_frame = None
    /\ prev_count >= 1
    /\ stop_event["grab"] /\ stop_event["proc"]

\* C11: a failed read does not propagate: it is not written into the slot
\* (once the grab loop has written, the slot holds a frame), it is not
\* counted (the grab counter is at most the number of reads less the failed
\* ones that end the sequence of reads), and the proc loop is in stop() only
\* for the cancel key.
C11_FailedReadAbsorbed ==
    /\ n_writes >= 1 => frame # None
    /\ fps["grab"].n_frames <= n_reads - stream_fails
    /\ pc["proc"] \in StopPcs => p_key = ESC

\* C12 as stated: a worker's counter is not written by the other worker's
\* thread: fps[w] does not change in a step of the other worker.
C12_CountersOwnedByWorker ==
    [][\A w \in Workers : fps'[w] # fps[w] =>
           \A v \in Workers \ {w} : pc'[v] = pc[v]]_vars

\* C12 as amended: a worker's frame count and its pacer are written only by
\* that worker's thread (stop() writes the counters' stop times and the stop
\* events from its caller's thread).
C12_FrameCountsOwnedByWorker ==
    [][/\ \A w \in Workers :
             fps'[w].n_frames # fps[w].n_frames => pc'[w] # pc[w]
       /\ g_steps' # g_steps => pc'["grab"] # pc["grab"]
       /\ p_steps' # p_steps => pc'["proc"] # pc["proc"]]_vars

\* the proc loop's stop() has stopped the grab counter, which has counted
\* frames, and the grab loop is still in its body
C12_Witness ==
    /\ pc["ctl"] = "started"
    /\ fps["grab"].stopped
    /\ fps["grab"].n_frames >= 1
    /\ pc["grab"] \in GrabBody

\* C13: frame_lock is held only for one access of the slot: a worker holds
\* it exactly while it is at its slot access or at the release that follows
\* (so not in the read of the stream, the pacer, the transform, the key
\* poll or stop()), and the holder can always go on to its release.
C13_LockHeldOnlyForAccess ==
    /\ frame_lock \in {"free", "grab", "proc"}
    /\ frame_lock = "grab" <=> pc["grab"] \in {"g114", "g115"}
    /\ frame_lock = "proc" <=> pc["proc"] \in {"p132", "p133"}
    /\ frame_lock = "grab" => ENABLED (GrabWrite \/ GrabRelease)
    /\ frame_lock = "proc" => ENABLED (ProcRead \/ ProcRelease)

\* the proc loop holds the lock while the grab loop, having written before,
\* waits for it
C13_Witness ==
    /\ frame_lock = "proc"
    /\ pc["grab"] = "g113"
    /\ n_writes >= 1

IsPrefix(a, b) == Len(a) <= Len(b) /\ a = SubSeq(b, 1, Len(a))

Reported(tag) == IF tag = "GRAB" THEN "grab" ELSE "proc"

\* C15: stop() freezes the counters before it reports: a frame count that
\* stop(), called by the proc loop, has printed is the worker's frame count
\* from then on.
C15_ReportedCountsFinal ==
    pc["ctl"] = "started" =>
        \A i \in DOMAIN stdout :
            stdout[i][2] = fps[Reported(stdout[i][1])].n_frames

\* C16: a worker whose stop event is set finishes at most the iteration it
\* is in: with its event set the grab loop writes the slot at most once and
\* counts at most once, the proc loop transforms at most once, and a worker
\* that has done so is at its loop test or has left the loop.
C16_AtMostOneIterationAfterStop ==
    /\ late.writes <= 1
    /\ late.counts <= 1
    /\ late.transforms <= 1
    /\ late.counts = 1 => pc["grab"] \in {"g93", "done"}
    /\ (late.transforms = 1 /\ pc["proc"] \in ProcBody) =>
           pc["proc"] \in {"a31", "p138", "p140"}

\* both events were set while both workers were inside an iteration; each
\* finished it and left its loop
C16_Witness ==
    /\ late = [writes |-> 1, counts |-> 1, transforms |-> 1]
    /\ pc["grab"] = "done"
    /\ pc["proc"] = "done"

\* C17: a proc iteration that finds no new count (count <= prev_count) reads
\* no slot, polls, transforms, shows and counts nothing before the pacer, and
\* every iteration that is back at the loop test has applied the pacer once,
\* as its last step.
C17_IdleIterationOnlyPaces ==
    /\ (pc["proc"] = "p140" /\ ~saw_new) =>
           (p_steps = <<"observe">> /\ count <= prev_count)
    /\ (pc["proc"] = "p140" /\ saw_new) =>
           p_steps = <<"observe", "read", "poll", "transform", "show",
                       "count">>
    /\ pc["proc"] = "p127" =>
           p_steps \in {<<>>, <<"observe", "pace">>,
                        <<"observe", "read", "poll", "transform", "show",
                          "count", "pace">>}

\* after a processed frame, an iteration found no new count and is back at
\* the loop test with the pacer applied
C17_Witness ==
    /\ pc["proc"] = "p127"
    /\ p_steps = <<"observe", "pace">>
    /\ prev_count >= 1
    /\ fps["proc"].n_frames = prev_count

\* C18: process_frame is never called with None, and the proc loop's
\* stop() ends the iteration that called it: in stop() and after it that
\* iteration has not transformed or shown, prev_count is still below count
\* and the proc counter still counts the frames processed before.
C18_NoTransformOfAbsentFrame ==
    /\ \A i \in DOMAIN processed : processed[i] # None
    /\ InStop("proc") =>
           /\ p_steps \in {<<"observe", "read">>,
                           <<"observe", "read", "poll">>}
           /\ prev_count < count
           /\ fps["proc"].n_frames = Len(processed)

\* after a processed frame the proc loop read None, called stop() without
\* a poll and has ended
C18_Witness ==
    /\ pc["proc"] = "exited"
    /\ p_frame = None
    /\ p_steps = <<"observe", "read">>
    /\ Len(processed) = 1

\* C19: the grab counter is never ahead of the slot: the slot has been
\* written as many times as the counter says or once more, a count the
\* proc loop acts on is at least 1 and at most the number of writes, and
\* the proc loop reads the slot only after it was written.
C19_CounterNeverAheadOfSlot ==
    /\ n_writes - fps["grab"].n_frames \in {0, 1}
    /\ count <= n_writes
    /\ pc["proc"] \in {"p131", "p132", "p133"} =>
           (count >= 1 /\ n_writes >= 1)
    /\ (\E i \in DOMAIN p_steps : p_steps[i] = "read") => n_writes >= 1

\* the proc loop is about to read the slot while the grab loop has written
\* frame N+1 and not yet counted it
C19_Witness ==
    /\ pc["proc"] = "p132"
    /\ count >= 1
    /\ n_writes = fps["grab"].n_frames + 1

\* C20: in every state the proc counter is at most prev_count, prev_count
\* at most the observed count, and that at most the grab counter.
C20_ProcNeverAheadOfGrab ==
    /\ fps["proc"].n_frames <= fps["grab"].n_frames
    /\ prev_count <= fps["grab"].n_frames
    /\ fps["proc"].n_frames <= prev_count
    /\ prev_count <= count
    /\ count <= fps["grab"].n_frames

\* the proc loop has caught up with the grab loop after two frames
C20_Witness ==
    /\ fps["proc"].n_frames = 2
    /\ prev_count = 2
    /\ fps["grab"].n_frames = 2

====
